---------------------------- MODULE Spec2Model ----------------------------
(***************************************************************************)
(* A model of tj-actions/changes (src/main.rs, src/utils.rs): one run of   *)
(* main() -- resolver selection, the push and pull-request range           *)
(* resolvers, the glob filter and the nine get_diff invocations -- over an *)
(* abstract commit graph.                                                   *)
(*                                                                         *)
(* Strings that hold commit ids are modelled by what they contain, as a    *)
(* pair <<kind, id>>:                                                      *)
(*   <<"empty", 0>>  the empty string                                      *)
(*   <<"hex", c>>    the 40 hex digits of object id c (0: the all-zero id) *)
(*   <<"HEX", c>>    the same digits with the letters a-f in upper case    *)
(*   <<"line", c>>   those hex digits followed by "\n" (untrimmed stdout)  *)
(*   <<"bytes", c>>  the 20 raw id bytes decoded with from_utf8_lossy      *)
(*   <<"text", n>>   any other text (a ref name echoed back, many lines)   *)
(* Oid::from_str accepts only 1..40 hex digits, in either letter case, so   *)
(* only "hex" and "HEX" parse, and both parse to the same id.  Oid's        *)
(* to_string and git's own output are lower case.                          *)
(***************************************************************************)
EXTENDS Integers, Sequences, FiniteSets, TLC

(***************************************************************************)
(* Bounds of the model.                                                    *)
(***************************************************************************)
\* fetch_depth is drawn from 1..MaxFetchDepth
MaxFetchDepth == 2

(***************************************************************************)
(* The commit graph of the remote repository.  Commits 1..5:               *)
(*     1 <- 2 <- 3            (base branch, origin/main at 3)              *)
(*            \- 4 <- 5       (head branch, tip 5)                         *)
(* The local clone holds a subset of them (variable local).                *)
(***************************************************************************)
Commits == 1..5
Parents(c) == CASE c = 1 -> << >>
                [] c = 2 -> <<1>>
                [] c = 3 -> <<2>>
                [] c = 4 -> <<2>>
                [] OTHER -> <<4>>
BaseTip == 3
HeadTip == 5
\* commits of the submodule's own repository (a separate object database)
SubCommits == {11, 12}

\* paths in tree (byte) order; a path is a sequence of characters
PathOrder == << <<"B">>, <<"a">>, <<"b">> >>
Paths == {PathOrder[i] : i \in 1..Len(PathOrder)}
\* blob id of every path in every commit's tree (0: the path is absent)
Tree(c) == CASE c = 1 -> <<0, 1, 0>>
             [] c = 2 -> <<0, 1, 1>>
             [] c = 3 -> <<0, 2, 1>>
             [] c = 4 -> <<0, 1, 0>>
             [] OTHER -> <<1, 1, 0>>
\* gitlink id recorded at the submodule path in a commit's tree (0: absent)
Gitlink(c) == CASE c = 1 -> 0
                [] c = 5 -> 12
                [] OTHER -> 11
\* trees of the submodule's commits, over the same paths
SubTree(s) == IF s = 11 THEN <<0, 1, 0>> ELSE <<0, 2, 1>>

EmptyStr == <<"empty", 0>>
Hex(c) == <<"hex", c>>
UpperHex(c) == <<"HEX", c>>
Line(c) == <<"line", c>>
Lossy(c) == <<"bytes", c>>
Text(n) == <<"text", n>>
ZeroSha == Hex(0)

\* Result values: Ok(x) or Err
Ok(x) == <<"Ok", x>>
Err == <<"Err", 0>>
IsOk(r) == r[1] = "Ok"
Unwrap(r) == r[2]
\* Oid::from_str: Ok(id) for hex digits, Err for anything else
OidFromStr(s) == IF s[1] \in {"hex", "HEX"} THEN Ok(s[2]) ELSE Err
\* str::trim of a command's output
Trim(s) == IF s[1] = "line" THEN Hex(s[2]) ELSE s

\* repo.find_commit: the object must be in the local object database
FindCommit(loc, id) == IF id \in loc THEN Ok(id) ELSE Err
\* commit.parent(0): Err when there is no parent or it is not local
Parent0(loc, c) == IF Len(Parents(c)) > 0 /\ Parents(c)[1] \in loc
                   THEN Ok(Parents(c)[1]) ELSE Err
is_initial_commit(c) == Len(Parents(c)) = 0

RECURSIVE LocalAncestors(_, _)
\* the commits reachable from c through parents that are present locally
LocalAncestors(loc, c) ==
    IF c \notin loc THEN {}
    ELSE {c} \cup UNION {LocalAncestors(loc, Parents(c)[i]) : i \in 1..Len(Parents(c))}
RECURSIVE Depth(_)
Depth(c) == IF Len(Parents(c)) = 0 THEN 0 ELSE 1 + Depth(Parents(c)[1])
\* repo.merge_base(a, b): the nearest common ancestor found locally, else Err
MergeBase(loc, a, b) ==
    LET common == LocalAncestors(loc, a) \cap LocalAncestors(loc, b)
    IN IF common = {} THEN Err
       ELSE Ok(CHOOSE m \in common : \A x \in common : Depth(x) <= Depth(m))
MergeBaseOk(loc, a, b) == IsOk(MergeBase(loc, a, b))

RECURSIVE Deepen(_, _)
\* git fetch --deepen=d: d more generations behind every local commit
Deepen(loc, d) ==
    IF d = 0 THEN loc
    ELSE Deepen(loc \cup UNION {{Parents(c)[i] : i \in 1..Len(Parents(c))} : c \in loc}, d - 1)


(***************************************************************************)
(* State of one run of main().                                             *)
(***************************************************************************)
VARIABLES
    pc,               \* position of the run in main / the selected resolver
    env,              \* the checkout: HEAD, is_shallow_clone, has_submodules,
                      \* GITHUB_EVENT_PULL_REQUEST_BASE_REF
    local,            \* commits present in the local object database
    args,             \* the command-line and CI inputs read so far
    current_sha,      \* the resolver's current_sha
    previous_sha,     \* the resolver's previous_sha
    r_initial,        \* the push resolver's initial_commit
    r_diff,           \* the pull-request resolver's diff operator
    fetches,          \* fetch attempts made by the merge-base remediation loop
    ret,              \* the tuple the resolver returned
    current_commit,   \* main's current_commit
    previous_commit,  \* main's previous_commit
    diff,             \* main's diff operator
    initial_commit,   \* main's initial_commit
    glob_patterns,    \* main's glob_patterns
    outputs,          \* the results of the get_diff invocations made so far
    exit_code         \* process exit status once the run has ended

vars == <<pc, env, local, args, current_sha, previous_sha, r_initial, r_diff,
          fetches, ret, current_commit, previous_commit, diff, initial_commit,
          glob_patterns, outputs, exit_code>>

TwoDot == ".."
ThreeDot == "..."
\* (mutant) main starting with the merge-base operator
MainInitialDiff_ThreeDot == ThreeDot
\* main, line 66: the operator main starts with
MainInitialDiff == TwoDot
NoCommit == 0
Running == 0 - 1
\* exit status of a Rust panic in the main thread
PanicCode == 101

\* An input is drawn when the run first reads it; until then args holds the
\* value below.  Inputs never change, so when they are drawn is unobservable.
NoArgs == [is_tag |-> FALSE, fetch_depth |-> 1, until |-> FALSE, since |-> FALSE,
           sha |-> EmptyStr, base_sha |-> EmptyStr, slrc |-> FALSE,
           forced |-> FALSE, before |-> EmptyStr, fork |-> FALSE,
           pr_base_sha |-> EmptyStr, files |-> << >>, files_ignore |-> << >>,
           files_from |-> << >>, files_ignore_from |-> << >>]

\* a CI-supplied commit id: empty, or the hex digits of some id
ShaInputs == {EmptyStr} \cup {Hex(c) : c \in {0} \cup Commits}
\* a commit id typed by the user (the sha and base_sha inputs): as above, or
\* the id of the base branch's tip spelled in upper case
UserShaInputs == ShaInputs \cup {UpperHex(BaseTip)}

IsClosed(S) == \A c \in S : \A i \in 1..Len(Parents(c)) : Parents(c)[i] \in S
\* the commits HEAD can be at: the root commit, the base tip, the head tip
Heads == {1, BaseTip, HeadTip}
\* the object databases a clone with HEAD at h can have: the history of HEAD
\* to some depth, with or without that of the base branch to the same depth
LocalViews(h) ==
    {Deepen({h}, k) : k \in 0..Cardinality(Commits)}
        \cup {Deepen({h, BaseTip}, k) : k \in 0..Cardinality(Commits)}
\* repo.is_shallow(): some ancestor of a local commit is missing
IsShallow(loc) == ~IsClosed(loc)

Init ==
    /\ pc = "start"
    /\ \E h \in Heads, sm \in BOOLEAN, br \in {"", "main"} :
          \E loc \in LocalViews(h) :
              /\ env = [head |-> h, is_shallow_clone |-> IsShallow(loc),
                        has_submodules |-> sm, pr_base_ref |-> br]
              /\ local = loc
    /\ args = NoArgs
    /\ current_sha = EmptyStr
    /\ previous_sha = EmptyStr
    /\ r_initial = FALSE
    /\ r_diff = ThreeDot
    /\ fetches = 0
    /\ ret = << >>
    /\ current_commit = NoCommit
    /\ previous_commit = NoCommit
    /\ diff = MainInitialDiff
    /\ initial_commit = FALSE
    /\ glob_patterns = << >>
    /\ outputs = << >>
    /\ exit_code = Running

\* std::process::exit(code), or a panic (code 101): the run ends
Exit(code) ==
    /\ pc' = "exit"
    /\ exit_code' = code

(***************************************************************************)
(* main, lines 12-83: the git version check and the choice of resolver.    *)
(***************************************************************************)
MainStart ==
    /\ pc = "start"
    /\ \E git_ok \in BOOLEAN :
          IF ~git_ok
          THEN Exit(1)
          ELSE /\ pc' = IF env.pr_base_ref = "" THEN "push_fetch" ELSE "pr_fetch"
               /\ UNCHANGED exit_code
    /\ UNCHANGED <<env, local, args, current_sha, previous_sha, r_initial, r_diff,
                   fetches, ret, current_commit, previous_commit, diff,
                   initial_commit, glob_patterns, outputs>>

(***************************************************************************)
(* get_previous_and_current_sha_for_push_event                             *)
(***************************************************************************)
\* lines 111-137: a shallow clone is deepened; the fetch may fail
PushFetch ==
    /\ pc = "push_fetch"
    /\ \E tag \in BOOLEAN, d \in 1..MaxFetchDepth :
          /\ env.is_shallow_clone \/ d = NoArgs.fetch_depth
          /\ args' = [args EXCEPT !.is_tag = tag, !.fetch_depth = d]
    /\ IF env.is_shallow_clone
       THEN \E fetched \in BOOLEAN :
               local' = IF fetched THEN Deepen(local, args'.fetch_depth) ELSE local
       ELSE local' = local
    /\ pc' = "push_current"
    /\ UNCHANGED <<env, current_sha, previous_sha, r_initial, r_diff, fetches, ret,
                   current_commit, previous_commit, diff, initial_commit,
                   glob_patterns, outputs, exit_code>>

\* the outputs `git log -1 --format=%H --until=<date>` can have: one line
\* naming a commit of HEAD's local history, or nothing
UntilOutputs(loc, h) == {EmptyStr} \cup {Line(c) : c \in LocalAncestors(loc, h)}

\* lines 141-159: the current sha of the push resolver
PushCurrentSha(until, sha, until_output, h) ==
    IF until THEN Trim(until_output)
    ELSE IF sha = EmptyStr THEN Hex(h) ELSE sha

\* lines 141-169
PushCurrent ==
    /\ pc = "push_current"
    /\ \E u \in BOOLEAN, s \in UserShaInputs, out \in UntilOutputs(local, env.head) :
          /\ u => s = NoArgs.sha                   \* sha is read when until is empty
          /\ args' = [args EXCEPT !.until = u, !.sha = s]
          /\ current_sha' = PushCurrentSha(u, s, out, env.head)
    /\ IF ~IsOk(OidFromStr(current_sha'))
       THEN Exit(PanicCode)
       ELSE IF ~IsOk(FindCommit(local, Unwrap(OidFromStr(current_sha'))))
       THEN Exit(1)
       ELSE pc' = "push_previous" /\ UNCHANGED exit_code
    /\ UNCHANGED <<env, local, previous_sha, r_initial, r_diff, fetches, ret,
                   current_commit, previous_commit, diff, initial_commit,
                   glob_patterns, outputs>>

\* a step of a resolver: how it leaves (go on, exit(1), panic) and the
\* previous_sha and initial_commit it has set
Step(out, sha, initial) == [out |-> out, sha |-> sha, initial |-> initial]

\* the outputs `git log --format=%H --since=<date>` can have, untrimmed:
\* nothing, one line, or several lines
SinceOutputs(loc, h) == {EmptyStr, Text(1)} \cup {Line(c) : c \in LocalAncestors(loc, h)}
\* `git tag --sort=-v:refname` then `git rev-parse <second tag>`: Err when
\* there is no second tag, else rev-parse's untrimmed output (the id and a
\* newline, or the tag name echoed back when it does not resolve)
TagOutputs(loc) == {Err} \cup {Ok(Line(c)) : c \in loc} \cup {Ok(Text(2))}

\* (mutant) `before` taken on a forced push too
PushOrdinaryPrevious_Forced(loc, cur, cur_sha, slrc, forced, before) ==
    IF ~IsOk(Parent0(loc, cur))
    THEN Step("panic", EmptyStr, FALSE)
    ELSE LET p  == Unwrap(Parent0(loc, cur))
             s1 == IF slrc THEN before ELSE Hex(p)
             s2 == IF s1 = EmptyStr \/ s1 = ZeroSha THEN Lossy(p) ELSE s1
         IN IF s2 = cur_sha
            THEN Step("ok", Hex(p), FALSE)
            ELSE Step("ok", s2, FALSE)
\* lines 208-238: the ordinary case of the push resolver
PushOrdinaryPrevious(loc, cur, cur_sha, slrc, forced, before) ==
    IF ~IsOk(Parent0(loc, cur))
    THEN Step("panic", EmptyStr, FALSE)                         \* line 210
    ELSE LET p  == Unwrap(Parent0(loc, cur))
             s1 == IF slrc /\ ~forced THEN before ELSE Hex(p)   \* lines 212-214
             s2 == IF s1 = EmptyStr \/ s1 = ZeroSha THEN Lossy(p) ELSE s1
         IN IF s2 = cur_sha
            THEN IF IsOk(Parent0(loc, cur))                     \* lines 220-230
                 THEN Step("ok", Hex(Unwrap(Parent0(loc, cur))), FALSE)
                 ELSE Step("ok", cur_sha, TRUE)
            ELSE IF s2 = EmptyStr                               \* lines 233-236
                 THEN Step("exit1", s2, FALSE)
                 ELSE Step("ok", s2, FALSE)

\* lines 171-252: the previous sha of the push resolver
PushPreviousSha(loc, cur, cur_sha, a, since_output, tag_output) ==
    IF a.base_sha = EmptyStr
    THEN IF a.since
         THEN Step("ok", since_output, FALSE)
         ELSE IF a.is_tag
         THEN IF IsOk(tag_output)
              THEN Step("ok", Unwrap(tag_output), FALSE)
              ELSE Step("panic", EmptyStr, FALSE)               \* line 199
         ELSE PushOrdinaryPrevious(loc, cur, cur_sha, a.slrc, a.forced, a.before)
    ELSE Step("ok", a.base_sha, FALSE)

\* the commit a sha that parsed and was found names
CommitOf(sha) == Unwrap(OidFromStr(sha))

PushPrevious ==
    /\ pc = "push_previous"
    /\ \E b \in UserShaInputs, si \in BOOLEAN, sl \in BOOLEAN, f \in BOOLEAN,
          bf \in ShaInputs, so \in SinceOutputs(local, env.head),
          to \in TagOutputs(local) :
          \* an input the chosen branch never reads keeps its NoArgs value
          /\ b # EmptyStr => si = NoArgs.since
          /\ (b # EmptyStr \/ si \/ args.is_tag) => sl = NoArgs.slrc
          /\ ~sl => f = NoArgs.forced
          /\ (b # EmptyStr \/ si \/ args.is_tag) => bf = NoArgs.before
          /\ args' = [args EXCEPT !.base_sha = b, !.since = si, !.slrc = sl,
                                  !.forced = f, !.before = bf]
          /\ LET st == PushPreviousSha(local, CommitOf(current_sha), current_sha,
                                       args', so, to)
             IN /\ previous_sha' = st.sha
                /\ r_initial' = st.initial
                /\ IF st.out = "panic" THEN Exit(PanicCode)
                   ELSE IF st.out = "exit1" THEN Exit(1)
                   ELSE pc' = "push_verify" /\ UNCHANGED exit_code
    /\ UNCHANGED <<env, local, current_sha, r_diff, fetches, ret, current_commit,
                   previous_commit, diff, initial_commit, glob_patterns, outputs>>

\* (mutant) the guard against identical commits left out
PushSimilar_Never(prev_sha, cur_sha, initial) == FALSE
\* lines 266-270: the push resolver's guard against identical commits
PushSimilar(prev_sha, cur_sha, initial) == prev_sha = cur_sha /\ ~initial

\* (mutant) previous_sha is not looked up before it is returned
PushVerdict_NoLookup(loc, prev_sha, cur_sha, initial) ==
    IF ~IsOk(OidFromStr(prev_sha)) THEN "panic"
    ELSE IF PushSimilar(prev_sha, cur_sha, initial) THEN "exit1"
    ELSE "return"
\* lines 257-277: how the push resolver ends once previous_sha is chosen
PushVerdict(loc, prev_sha, cur_sha, initial) ==
    IF ~IsOk(OidFromStr(prev_sha)) THEN "panic"                 \* line 259
    ELSE IF ~IsOk(FindCommit(loc, CommitOf(prev_sha))) THEN "exit1"
    ELSE IF PushSimilar(prev_sha, cur_sha, initial) THEN "exit1"
    ELSE "return"

\* lines 272-276: the tuple the push resolver returns
PushReturn(prev_sha, cur_sha, initial) ==
    <<CommitOf(prev_sha), CommitOf(cur_sha), initial>>

PushVerify ==
    /\ pc = "push_verify"
    /\ LET v == PushVerdict(local, previous_sha, current_sha, r_initial)
       IN IF v = "panic" THEN Exit(PanicCode) /\ UNCHANGED ret
          ELSE IF v = "exit1" THEN Exit(1) /\ UNCHANGED ret
          ELSE /\ ret' = PushReturn(previous_sha, current_sha, r_initial)
               /\ pc' = "push_return"
               /\ UNCHANGED exit_code
    /\ UNCHANGED <<env, local, args, current_sha, previous_sha, r_initial, r_diff,
                   fetches, current_commit, previous_commit, diff, initial_commit,
                   glob_patterns, outputs>>

\* main, lines 84-88: the names the push resolver's tuple is bound to, in order
PushBinding == <<"current_commit", "previous_commit", "initial_commit">>
\* the position of a name in a binding
Slot(binding, name) == CHOOSE i \in 1..Len(binding) : binding[i] = name

\* main, lines 84-109
MainAfterPush ==
    /\ pc = "push_return"
    /\ current_commit' = ret[Slot(PushBinding, "current_commit")]
    /\ previous_commit' = ret[Slot(PushBinding, "previous_commit")]
    /\ initial_commit' = ret[Slot(PushBinding, "initial_commit")]
    /\ IF initial_commit'
       THEN Exit(0)
       ELSE pc' = "glob" /\ UNCHANGED exit_code
    /\ UNCHANGED <<env, local, args, current_sha, previous_sha, r_initial, r_diff,
                   fetches, ret, diff, glob_patterns, outputs>>

(***************************************************************************)
(* The tree diff of the commit-graph provider (repo.diff_tree_to_tree with *)
(* ignore_submodules): one delta per path whose entry differs, in tree     *)
(* order, with its raw status.                                             *)
(***************************************************************************)
RawStatus(old, new) == IF old = 0 THEN "Added"
                       ELSE IF new = 0 THEN "Deleted"
                       ELSE "Modified"
RECURSIVE DeltasFrom(_, _, _)
DeltasFrom(old_tree, new_tree, i) ==
    IF i > Len(PathOrder) THEN << >>
    ELSE (IF old_tree[i] = new_tree[i] THEN << >>
          ELSE << [path |-> PathOrder[i],
                   status |-> RawStatus(old_tree[i], new_tree[i])] >>)
         \o DeltasFrom(old_tree, new_tree, i + 1)
DiffTreeToTree(old_tree, new_tree) == DeltasFrom(old_tree, new_tree, 1)

(***************************************************************************)
(* get_previous_and_current_sha_for_pull_request_event                     *)
(***************************************************************************)
\* main, lines 115-131: the caller's input that is passed in the position of
\* the resolver's `until` parameter (line 126)
PRUntilArgument == "since"

\* lines 303-350: the fetches of a shallow clone.  The first fetch brings the
\* pull request's head; when it fails the head branch is deepened instead;
\* with since_last_remote_commit the target branch is deepened too.  Every
\* fetch may fail.
PRFetchResults(loc, d, slrc) ==
    LET first  == {loc \cup {HeadTip}}
        second == {loc, Deepen(loc, d)}
        heads  == first \cup second
    IN IF slrc THEN heads \cup {Deepen(l, d) : l \in heads} ELSE heads

PRFetch ==
    /\ pc = "pr_fetch"
    /\ \E sl \in BOOLEAN, d \in 1..MaxFetchDepth :
          /\ env.is_shallow_clone \/ d = NoArgs.fetch_depth
          /\ args' = [args EXCEPT !.slrc = sl, !.fetch_depth = d]
    /\ IF env.is_shallow_clone
       THEN local' \in PRFetchResults(local, args'.fetch_depth, args'.slrc)
       ELSE local' = local
    /\ pc' = "pr_current"
    /\ UNCHANGED <<env, current_sha, previous_sha, r_initial, r_diff, fetches, ret,
                   current_commit, previous_commit, diff, initial_commit,
                   glob_patterns, outputs, exit_code>>

\* the outputs `git rev-list -n 1 HEAD` can have, untrimmed: HEAD's id and a
\* newline, or nothing when the working directory is not the repository
RevListOutputs(h) == {Line(h), EmptyStr}

\* lines 354-380: the current sha of the pull-request resolver; the command
\* outputs are stored as they are, untrimmed
PRCurrentSha(until, sha, until_output, head_output) ==
    IF until THEN until_output
    ELSE IF sha = EmptyStr THEN head_output ELSE sha

\* lines 354-391
PRCurrent ==
    /\ pc = "pr_current"
    /\ \E u \in BOOLEAN, s \in UserShaInputs, uo \in UntilOutputs(local, env.head),
          ho \in RevListOutputs(env.head) :
          /\ u => s = NoArgs.sha                   \* sha is read when until is empty
          /\ args' = [args EXCEPT ![PRUntilArgument] = u, !.sha = s]
          /\ current_sha' = PRCurrentSha(u, s, uo, ho)
    /\ IF ~IsOk(OidFromStr(current_sha'))
       THEN Exit(PanicCode)
       ELSE IF ~IsOk(FindCommit(local, CommitOf(current_sha')))
       THEN Exit(1)
       ELSE pc' = "pr_previous" /\ UNCHANGED exit_code
    /\ UNCHANGED <<env, local, previous_sha, r_initial, r_diff, fetches, ret,
                   current_commit, previous_commit, diff, initial_commit,
                   glob_patterns, outputs>>

\* (mutant) the fork flag is not looked at
PRInitialDiff_NoFork(base_ref, fork) ==
    IF base_ref = "" THEN TwoDot ELSE ThreeDot
\* lines 396-400: the operator the pull-request resolver starts with
PRInitialDiff(base_ref, fork) ==
    IF base_ref = "" \/ fork THEN TwoDot ELSE ThreeDot

\* line 432: `for i in 1..10`, the range's start and its exclusive end
LoopStart == 1
LoopEnd == 10

RECURSIVE RemediationLoop(_, _, _, _, _, _)
\* lines 432-455: every <<fetch attempts made, local history>> the loop can
\* end with, from iteration i on; each fetch deepens the history or fails
RemediationLoop(loc, prev, cur, d, i, n) ==
    IF i >= LoopEnd THEN {<<n, loc>>}
    ELSE UNION { IF MergeBaseOk(l, prev, cur)
                 THEN {<<n + 1, l>>}
                 ELSE RemediationLoop(l, prev, cur, d, i + 1, n + 1)
                 : l \in {loc, Deepen(loc, d)} }

\* the outputs `git rev-parse origin/<target branch>` can have, untrimmed:
\* the tip's id and a newline, the name echoed back when the ref is unknown,
\* or nothing when the working directory is not the repository
RevParseOutputs == {Line(BaseTip), Text(3), EmptyStr}

\* lines 410-457: previous taken from the tracked target branch.  The result
\* is <<how the step leaves, previous_sha, fetch attempts, local history>>.
PRBranchPrevious(loc, cur, shallow, d, output) ==
    IF ~shallow THEN {<<"ok", output, 0, loc>>}
    ELSE IF ~IsOk(OidFromStr(output)) THEN {<<"panic", output, 0, loc>>}  \* line 421
    ELSE IF MergeBaseOk(loc, CommitOf(output), cur) THEN {<<"ok", output, 0, loc>>}
    ELSE {<<"ok", output, o[1], o[2]>> :
             o \in RemediationLoop(loc, CommitOf(output), cur, d, LoopStart, 0)}

\* lines 403-408: previous taken from the CI "before" sha
PRBeforePrevious(loc, before, pr_base_sha) ==
    IF ~IsOk(OidFromStr(before)) THEN <<"panic", before>>            \* line 406
    ELSE IF ~IsOk(FindCommit(loc, CommitOf(before))) THEN <<"ok", pr_base_sha>>
    ELSE <<"ok", before>>

\* lines 460-462: the fall-back to the pull request's base sha
PRFallback(prev_sha, cur_sha, pr_base_sha) ==
    IF prev_sha = EmptyStr \/ prev_sha = cur_sha THEN pr_base_sha ELSE prev_sha

\* whether lines 402-467 read github_event_pull_request_base_sha
PRReadsBaseSha(loc, cur_sha, base_sha, slrc, before, output, shallow) ==
    /\ base_sha = EmptyStr
    /\ IF slrc
       THEN /\ IsOk(OidFromStr(before))
            /\ ~IsOk(FindCommit(loc, CommitOf(before))) \/ before = cur_sha
       ELSE /\ ~shallow \/ IsOk(OidFromStr(output))
            /\ output = EmptyStr \/ output = cur_sha

\* lines 395-467
PRPrevious ==
    /\ pc = "pr_previous"
    /\ \E f \in BOOLEAN, b \in UserShaInputs, bf \in ShaInputs, pb \in ShaInputs,
          ro \in RevParseOutputs :
          \* an input the chosen branch never reads keeps its NoArgs value
          /\ (b # EmptyStr \/ ~args.slrc) => bf = NoArgs.before
          /\ (b # EmptyStr \/ args.slrc) => ro = EmptyStr
          /\ ~PRReadsBaseSha(local, current_sha, b, args.slrc, bf, ro,
                              env.is_shallow_clone) => pb = NoArgs.pr_base_sha
          /\ args' = [args EXCEPT !.fork = f, !.base_sha = b, !.before = bf,
                                  !.pr_base_sha = pb]
          /\ r_diff' = PRInitialDiff(env.pr_base_ref, f)
          /\ IF b # EmptyStr
             THEN /\ previous_sha' = b
                  /\ pc' = "pr_merge_base"
                  /\ UNCHANGED <<local, fetches, exit_code>>
             ELSE IF args.slrc
             THEN LET o == PRBeforePrevious(local, bf, pb)
                  IN /\ previous_sha' = IF o[1] = "panic" THEN o[2]
                                      ELSE PRFallback(o[2], current_sha, pb)
                     /\ IF o[1] = "panic" THEN Exit(PanicCode)
                        ELSE pc' = "pr_merge_base" /\ UNCHANGED exit_code
                     /\ UNCHANGED <<local, fetches>>
             ELSE \E o \in PRBranchPrevious(local, CommitOf(current_sha),
                                            env.is_shallow_clone,
                                            args.fetch_depth, ro) :
                     /\ previous_sha' = IF o[1] = "panic" THEN o[2]
                                      ELSE PRFallback(o[2], current_sha, pb)
                     /\ fetches' = o[3]
                     /\ local' = o[4]
                     /\ IF o[1] = "panic" THEN Exit(PanicCode)
                        ELSE pc' = "pr_merge_base" /\ UNCHANGED exit_code
    /\ UNCHANGED <<env, current_sha, r_initial, ret, current_commit,
                   previous_commit, diff, initial_commit, glob_patterns, outputs>>

\* (mutant) the operator of step 1 kept whatever the merge-base check says
PRFinalDiff_Keep(loc, prev, cur, d) == d
\* lines 469-481: the operator after the merge-base check on the final pair
PRFinalDiff(loc, prev, cur, d) ==
    IF MergeBaseOk(loc, prev, cur) THEN d ELSE TwoDot

\* lines 469-481
PRMergeBase ==
    /\ pc = "pr_merge_base"
    /\ IF ~IsOk(OidFromStr(previous_sha))
       THEN Exit(PanicCode) /\ UNCHANGED r_diff                      \* line 471
       ELSE /\ r_diff' = PRFinalDiff(local, CommitOf(previous_sha),
                                     CommitOf(current_sha), r_diff)
            /\ pc' = "pr_verify"
            /\ UNCHANGED exit_code
    /\ UNCHANGED <<env, local, args, current_sha, previous_sha, r_initial, fetches,
                   ret, current_commit, previous_commit, diff, initial_commit,
                   glob_patterns, outputs>>

\* lines 498-502 and 564-568: the old side of the diff.  `...` unwraps the
\* merge base, so the result is Err when it cannot be computed.
AncestorCommit(loc, prev, cur, d) ==
    IF d = TwoDot THEN Ok(prev) ELSE MergeBase(loc, prev, cur)

\* (mutant) the validation diff is never taken to be empty
PREmptyDiff_Never(ancestor, cur) == FALSE
\* lines 509-512: the validation diff has no delta
PREmptyDiff(ancestor, cur) == Len(DiffTreeToTree(Tree(ancestor), Tree(cur))) = 0

\* lines 486-525: how the pull-request resolver ends
PRVerdict(loc, prev_sha, cur_sha, d) ==
    IF ~IsOk(FindCommit(loc, CommitOf(prev_sha))) THEN "exit1"     \* lines 487-494
    ELSE LET anc == AncestorCommit(loc, CommitOf(prev_sha), CommitOf(cur_sha), d)
         IN IF ~IsOk(anc) THEN "panic"                             \* line 500
            ELSE IF PREmptyDiff(Unwrap(anc), CommitOf(cur_sha)) THEN "exit1"
            ELSE IF prev_sha = cur_sha THEN "exit1"                \* lines 514-518
            ELSE "return"

\* lines 520-524: the tuple the pull-request resolver returns
PRReturn(prev_sha, cur_sha, d) == <<CommitOf(prev_sha), CommitOf(cur_sha), d>>

PRVerify ==
    /\ pc = "pr_verify"
    /\ LET v == PRVerdict(local, previous_sha, current_sha, r_diff)
       IN IF v = "panic" THEN Exit(PanicCode) /\ UNCHANGED ret
          ELSE IF v = "exit1" THEN Exit(1) /\ UNCHANGED ret
          ELSE /\ ret' = PRReturn(previous_sha, current_sha, r_diff)
               /\ pc' = "pr_return"
               /\ UNCHANGED exit_code
    /\ UNCHANGED <<env, local, args, current_sha, previous_sha, r_initial, r_diff,
                   fetches, current_commit, previous_commit, diff, initial_commit,
                   glob_patterns, outputs>>

\* main, lines 111-115: the names the pull-request resolver's tuple is bound to
PRBinding == <<"current_commit", "previous_commit", "diff">>

\* main, lines 110-132
MainAfterPR ==
    /\ pc = "pr_return"
    /\ current_commit' = ret[Slot(PRBinding, "current_commit")]
    /\ previous_commit' = ret[Slot(PRBinding, "previous_commit")]
    /\ diff' = ret[Slot(PRBinding, "diff")]
    /\ pc' = "glob"
    /\ UNCHANGED <<env, local, args, current_sha, previous_sha, r_initial, r_diff,
                   fetches, ret, initial_commit, glob_patterns, outputs, exit_code>>

(***************************************************************************)
(* get_glob_patterns.  A pattern or a path is a sequence of characters;    *)
(* "*" and "?" are the wildcards, "[" opens a character class and, left    *)
(* unclosed, makes the pattern malformed.                                  *)
(***************************************************************************)
\* args.rs: the default of every *_separator input, and the separator of a
\* source file's lines (utils.rs lines 713, 745)
Newline == "\n"

RECURSIVE SplitFrom(_, _, _)
\* str::split: the pieces between separators, empty pieces included
SplitFrom(str, sep, piece) ==
    IF str = << >> THEN <<piece>>
    ELSE IF Head(str) = sep THEN <<piece>> \o SplitFrom(Tail(str), sep, << >>)
    ELSE SplitFrom(Tail(str), sep, Append(piece, Head(str)))
Split(str, sep) == SplitFrom(str, sep, << >>)

\* Pattern::new: Err for a malformed pattern
PatternNew(text) ==
    IF \E i \in 1..Len(text) : text[i] = "[" THEN Err ELSE Ok(text)

ToLower(ch) == IF ch = "A" THEN "a" ELSE IF ch = "B" THEN "b" ELSE ch
CharMatches(pc_, ch, case_sensitive) ==
    IF case_sensitive THEN pc_ = ch ELSE ToLower(pc_) = ToLower(ch)

RECURSIVE MatchesWith(_, _, _)
\* Pattern::matches_with
MatchesWith(pattern, text, case_sensitive) ==
    IF pattern = << >> THEN text = << >>
    ELSE IF Head(pattern) = "*"
    THEN \/ MatchesWith(Tail(pattern), text, case_sensitive)
         \/ text # << >> /\ MatchesWith(pattern, Tail(text), case_sensitive)
    ELSE IF text = << >> THEN FALSE
    ELSE IF Head(pattern) = "?"
    THEN MatchesWith(Tail(pattern), Tail(text), case_sensitive)
    ELSE /\ CharMatches(Head(pattern), Head(text), case_sensitive)
         /\ MatchesWith(Tail(pattern), Tail(text), case_sensitive)
\* Pattern::matches: the default MatchOptions are case sensitive
Matches(pattern, text) == MatchesWith(pattern, text, TRUE)

RECURSIVE CompileAll(_)
\* every piece compiled in order; a malformed one is reported and left out
CompileAll(pieces) ==
    IF pieces = << >> THEN << >>
    ELSE (IF IsOk(PatternNew(Head(pieces))) THEN <<Unwrap(PatternNew(Head(pieces)))>>
          ELSE << >>) \o CompileAll(Tail(pieces))

\* lines 693-701, 725-733: the patterns of an inline list
InlinePatterns(list, sep) ==
    IF list = << >> THEN << >> ELSE CompileAll(Split(list, sep))

\* fs::read_to_string of a source file: "f" holds the lines "b" and "",
\* any other file cannot be read
ReadToString(name) == IF name = <<"f">> THEN Ok(<<"b", Newline>>) ELSE Err

RECURSIVE SourceFilePatterns(_)
\* lines 704-720, 736-752: the patterns of the source files named
SourceFilePatterns(names) ==
    IF names = << >> THEN << >>
    ELSE (IF IsOk(ReadToString(Head(names)))
          THEN CompileAll(Split(Unwrap(ReadToString(Head(names))), Newline))
          ELSE << >>) \o SourceFilePatterns(Tail(names))
FromFilePatterns(list, sep) ==
    IF list = << >> THEN << >> ELSE SourceFilePatterns(Split(list, sep))

RECURSIVE Filter(_, _, _)
\* the elements of seq from i on for which keep[i] holds, in order
Filter(seq, keep, i) ==
    IF i > Len(seq) THEN << >>
    ELSE (IF keep[i] THEN <<seq[i]>> ELSE << >>) \o Filter(seq, keep, i + 1)

\* lines 755-761: an include pattern is dropped when an ignore pattern
\* matches its text, case-insensitively
IsIgnoredPattern(ignore, pattern) ==
    \E j \in 1..Len(ignore) : MatchesWith(ignore[j], pattern, FALSE)

\* (mutant) the patterns of the source files put before the inline ones
IncludePatterns_FileFirst(a) ==
    FromFilePatterns(a.files_from, Newline) \o InlinePatterns(a.files, Newline)
\* lines 691-721
IncludePatterns(a) ==
    InlinePatterns(a.files, Newline) \o FromFilePatterns(a.files_from, Newline)
\* lines 723-753
IgnorePatterns(a) ==
    InlinePatterns(a.files_ignore, Newline)
        \o FromFilePatterns(a.files_ignore_from, Newline)

\* lines 680-764
get_glob_patterns(a) ==
    LET inc == IncludePatterns(a)
        ign == IgnorePatterns(a)
    IN Filter(inc, [i \in 1..Len(inc) |-> ~IsIgnoredPattern(ign, inc[i])], 1)

\* lines 595, 668: the path filter of get_diff and get_submodule_diff
PassesFilter(patterns, path) ==
    patterns = << >> \/ \E i \in 1..Len(patterns) : Matches(patterns[i], path)

(***************************************************************************)
(* get_diff and get_submodule_diff                                         *)
(***************************************************************************)
DiffTypes == {"Added", "Copied", "Modified", "Deleted", "Renamed", "TypeChanged",
              "Unmerged", "Unknown"}

\* lines 578-590 and 651-663: the kind of a delta by its raw status
DeltaType(status) ==
    CASE status = "Added" -> "Added"
      [] status = "Copied" -> "Copied"
      [] status = "Deleted" -> "Deleted"
      [] status = "Modified" -> "Modified"
      [] status = "Renamed" -> "Renamed"
      [] status = "Typechange" -> "TypeChanged"
      [] status = "Unmodified" -> "Unknown"
      [] status = "Unreadable" -> "Unknown"
      [] status = "Untracked" -> "Unknown"
      [] status = "Ignored" -> "Unknown"
      [] status = "Conflicted" -> "Unmerged"

\* (mutant) the wanted set is not looked at
SelectFiles_AnyKind(deltas, diff_types, patterns) ==
    LET files == [i \in 1..Len(deltas) |->
                     [path |-> deltas[i].path,
                      diff_type |-> DeltaType(deltas[i].status)]]
    IN Filter(files,
              [i \in 1..Len(deltas) |-> PassesFilter(patterns, files[i].path)], 1)
\* lines 575-602 and 648-675: the deltas kept, as DiffFile values, in order
SelectFiles(deltas, diff_types, patterns) ==
    LET files == [i \in 1..Len(deltas) |->
                     [path |-> deltas[i].path,
                      diff_type |-> DeltaType(deltas[i].status)]]
    IN Filter(files,
              [i \in 1..Len(deltas) |->
                  /\ files[i].diff_type \in diff_types
                  /\ PassesFilter(patterns, files[i].path)], 1)

\* repo.submodules(): the checkout has one submodule or none
Submodules(has_submodules) == IF has_submodules THEN <<"m">> ELSE << >>
\* tree.get_path(submodule path): the gitlink entry of a commit's tree
GetPath(c) == IF Gitlink(c) = 0 THEN Err ELSE Ok(Gitlink(c))

\* lines 623-678.  The gitlink ids are looked up with repo.find_commit, in
\* the object database of the parent repository.
get_submodule_diff(loc, parent_previous, parent_current, diff_types, d, patterns) ==
    IF ~IsOk(GetPath(parent_previous)) \/ ~IsOk(GetPath(parent_current))
    THEN Err                                                    \* lines 634-635
    ELSE LET prev == FindCommit(loc, Unwrap(GetPath(parent_previous)))
             cur  == FindCommit(loc, Unwrap(GetPath(parent_current)))
         IN IF ~IsOk(prev) \/ ~IsOk(cur) THEN Err               \* lines 634-635
            ELSE LET anc == AncestorCommit(loc, Unwrap(prev), Unwrap(cur), d)
                 IN IF ~IsOk(anc) THEN Err                      \* line 639
                    ELSE Ok(SelectFiles(DiffTreeToTree(Tree(Unwrap(anc)),
                                                       Tree(Unwrap(cur))),
                                        diff_types, patterns))

RECURSIVE SubmoduleFiles(_, _, _, _, _, _, _)
\* lines 604-618: the matches of every submodule, appended in listing order;
\* Err when a lookup in get_submodule_diff panics
SubmoduleFiles(subs, loc, prev, cur, diff_types, d, patterns) ==
    IF subs = << >> THEN Ok(<< >>)
    ELSE LET one  == get_submodule_diff(loc, prev, cur, diff_types, d, patterns)
             rest == SubmoduleFiles(Tail(subs), loc, prev, cur, diff_types, d, patterns)
         IN IF ~IsOk(one) \/ ~IsOk(rest) THEN Err
            ELSE Ok(Unwrap(one) \o Unwrap(rest))

\* lines 556-621: Ok(files), or Err when an unwrap panics
get_diff(loc, subs, prev, cur, diff_types, d, patterns) ==
    LET anc == AncestorCommit(loc, prev, cur, d)
    IN IF ~IsOk(anc) THEN Err                                   \* line 566
       ELSE LET top == SelectFiles(DiffTreeToTree(Tree(Unwrap(anc)), Tree(cur)),
                                   diff_types, patterns)
                sub == SubmoduleFiles(subs, loc, prev, cur, diff_types, d, patterns)
            IN IF ~IsOk(sub) THEN Err ELSE Ok(top \o Unwrap(sub))

(***************************************************************************)
(* main, lines 134-248                                                     *)
(***************************************************************************)
\* the inline pattern lists and the source-file lists a run may be given
PatternLists == { << >>, <<"a">>, <<"*">>, <<"B">>, <<"a", Newline, "b">>, <<"[">> }
SourceFileLists == { << >>, <<"f">>, <<"g">> }
\* the inline lists drawn by a whole run of main
RunPatternLists == { << >>, <<"a">> }

\* lines 134-144
MainGlob ==
    /\ pc = "glob"
    /\ \E f \in RunPatternLists, g \in RunPatternLists :
          args' = [args EXCEPT !.files = f, !.files_ignore = g]
    /\ glob_patterns' = get_glob_patterns(args')
    /\ pc' = "diff"
    /\ UNCHANGED <<env, local, current_sha, previous_sha, r_initial, r_diff,
                   fetches, ret, current_commit, previous_commit, diff,
                   initial_commit, outputs, exit_code>>

\* (mutant) the second invocation asks for Added again
DiffRequests_AddedTwice ==
    << {"Added"}, {"Added"}, {"Deleted"}, {"Modified"}, {"Renamed"},
       {"TypeChanged"}, {"Unmerged"}, {"Unknown"}, DiffTypes >>
\* lines 146-234: the wanted kinds of the nine get_diff invocations, in order
DiffRequests == << {"Added"}, {"Copied"}, {"Deleted"}, {"Modified"}, {"Renamed"},
                   {"TypeChanged"}, {"Unmerged"}, {"Unknown"}, DiffTypes >>

\* lines 146-153: the arguments main hands to get_diff, by parameter
DiffCall(prev, cur, d) == [previous_commit |-> prev, current_commit |-> cur, diff |-> d]

\* lines 146-248: one get_diff invocation; after the ninth, main returns
MainDiff ==
    /\ pc = "diff"
    /\ LET call == DiffCall(previous_commit, current_commit, diff)
           res  == get_diff(local, Submodules(env.has_submodules),
                            call.previous_commit, call.current_commit,
                            DiffRequests[Len(outputs) + 1], call.diff, glob_patterns)
       IN IF ~IsOk(res)
          THEN Exit(PanicCode) /\ UNCHANGED outputs
          ELSE /\ outputs' = Append(outputs,
                                [call |-> call, diff_types |-> DiffRequests[Len(outputs) + 1],
                                 files |-> Unwrap(res)])
               /\ IF Len(outputs') = Len(DiffRequests)
                  THEN Exit(0)
                  ELSE UNCHANGED <<pc, exit_code>>
    /\ UNCHANGED <<env, local, args, current_sha, previous_sha, r_initial, r_diff,
                   fetches, ret, current_commit, previous_commit, diff,
                   initial_commit, glob_patterns>>

Next ==
    \/ MainStart
    \/ PushFetch
    \/ PushCurrent
    \/ PushPrevious
    \/ PushVerify
    \/ MainAfterPush
    \/ PRFetch
    \/ PRCurrent
    \/ PRPrevious
    \/ PRMergeBase
    \/ PRVerify
    \/ MainAfterPR
    \/ MainGlob
    \/ MainDiff

Spec == Init /\ [][Next]_vars

(***************************************************************************)
(* The glob filter on its own: get_glob_patterns applied to every          *)
(* combination of pattern inputs, and the path filter of get_diff applied  *)
(* to a changed path.                                                      *)
(***************************************************************************)
\* the changed paths the filter is applied to
FilterPaths == Paths \cup { <<"A">>, <<"a", "b">> }

InitGlob ==
    /\ pc = "filter_args"
    /\ env = [head |-> HeadTip, is_shallow_clone |-> FALSE, has_submodules |-> FALSE,
              pr_base_ref |-> ""]
    /\ local = Commits
    /\ args = NoArgs
    /\ current_sha = EmptyStr
    /\ previous_sha = EmptyStr
    /\ r_initial = FALSE
    /\ r_diff = ThreeDot
    /\ fetches = 0
    /\ ret = << >>
    /\ current_commit = NoCommit
    /\ previous_commit = NoCommit
    /\ diff = MainInitialDiff
    /\ initial_commit = FALSE
    /\ glob_patterns = << >>
    /\ outputs = << >>
    /\ exit_code = Running

\* lines 680-764 on any of the pattern inputs
FilterBuild ==
    /\ pc = "filter_args"
    /\ \E f \in PatternLists, ff \in SourceFileLists, g \in PatternLists,
          gf \in SourceFileLists :
          args' = [args EXCEPT !.files = f, !.files_from = ff,
                               !.files_ignore = g, !.files_ignore_from = gf]
    /\ glob_patterns' = get_glob_patterns(args')
    /\ pc' = "filter_built"
    /\ UNCHANGED <<env, local, current_sha, previous_sha, r_initial, r_diff,
                   fetches, ret, current_commit, previous_commit, diff,
                   initial_commit, outputs, exit_code>>

\* lines 593-600 on one changed path
FilterApply ==
    /\ pc = "filter_built"
    /\ \E p \in FilterPaths :
          outputs' = <<[path |-> p, kept |-> PassesFilter(glob_patterns, p)]>>
    /\ pc' = "filter_applied"
    /\ UNCHANGED <<env, local, args, current_sha, previous_sha, r_initial, r_diff,
                   fetches, ret, current_commit, previous_commit, diff,
                   initial_commit, glob_patterns, exit_code>>

\* git2::Delta: the raw statuses of a delta
RawStatuses == {"Added", "Copied", "Deleted", "Modified", "Renamed", "Typechange",
                "Conflicted", "Untracked", "Ignored", "Unreadable", "Unmodified"}

\* lines 539-554, impl From<Delta> for DiffType: Ok(kind) for a status the
\* match has an arm for, Err for one it has none for
FromDelta(status) ==
    CASE status = "Added" -> Ok("Added")
      [] status = "Copied" -> Ok("Copied")
      [] status = "Deleted" -> Ok("Deleted")
      [] status = "Modified" -> Ok("Modified")
      [] status = "Renamed" -> Ok("Renamed")
      [] status = "Typechange" -> Ok("TypeChanged")
      [] status = "Untracked" -> Ok("Added")
      [] status = "Ignored" -> Ok("Added")
      [] status = "Unreadable" -> Ok("Added")
      [] status = "Conflicted" -> Ok("Unmerged")
      [] OTHER -> Err

\* both status mappings applied to one raw status
Classify ==
    /\ pc = "filter_args"
    /\ \E st \in RawStatuses :
          outputs' = <<[status |-> st, detected |-> FromDelta(st),
                        requested |-> DeltaType(st)]>>
    /\ pc' = "classified"
    /\ UNCHANGED <<env, local, args, current_sha, previous_sha, r_initial, r_diff,
                   fetches, ret, current_commit, previous_commit, diff,
                   initial_commit, glob_patterns, exit_code>>

NextGlob ==
    \/ FilterBuild
    \/ FilterApply
    \/ Classify

SpecGlob == InitGlob /\ [][NextGlob]_vars

(***************************************************************************)
(* Properties                                                              *)
(***************************************************************************)
PushRun == env.pr_base_ref = ""
PRRun == env.pr_base_ref # ""
\* the resolver has resolved current_sha to a commit of the local history
CurrentFound ==
    /\ IsOk(OidFromStr(current_sha))
    /\ IsOk(FindCommit(local, CommitOf(current_sha)))
\* the resolver has returned: ret = <<previous, current, ...>>
Returned == ret # << >>
\* the ordinary branch of the push resolver: no base-sha override, no since
\* filter, not a tag
PushOrdinary ==
    PushRun /\ CurrentFound /\ args.base_sha = EmptyStr /\ ~args.since /\ ~args.is_tag
\* the paths present in a tree
PathsOf(tree) == {PathOrder[i] : i \in {j \in 1..Len(PathOrder) : tree[j] # 0}}

\* C1: at every get_diff invocation the commit handed over as previous is the
\* commit the resolver returned as previous and the commit handed over as
\* current is the one it returned as current, so that a file present only in
\* the resolver's current tree is listed as Added and never as Deleted.
C1_ResolverPairReachesDiff ==
    \A i \in 1..Len(outputs) :
        /\ outputs[i].call.previous_commit = ret[1]
        /\ outputs[i].call.current_commit = ret[2]
        /\ \A j \in 1..Len(outputs[i].files) :
              LET f == outputs[i].files[j]
              IN (outputs[i].call.diff = TwoDot
                    /\ f.path \in PathsOf(Tree(ret[2])) \ PathsOf(Tree(ret[1])))
                 => f.diff_type = "Added"

\* a path matches some pattern of a list, by the match get_diff applies to paths
MatchesAny(patterns, path) ==
    \E i \in 1..Len(patterns) : Matches(patterns[i], path)

\* C2: the filter keeps a changed path iff the include set is empty or the
\* path matches an include pattern, and the path matches no exclude pattern.
C2_GlobCompositionLaw ==
    pc = "filter_applied"
        => (outputs[1].kept
              <=> /\ IncludePatterns(args) = << >>
                     \/ MatchesAny(IncludePatterns(args), outputs[1].path)
                  /\ ~MatchesAny(IgnorePatterns(args), outputs[1].path))

\* C3: an ordinary push whose current commit has no parent ends with the
\* initial-commit short-circuit: initial_commit is set, the exit code is 0 and
\* no diff was computed.
C3_InitialCommitShortCircuit ==
    (pc = "exit" /\ PushOrdinary /\ is_initial_commit(CommitOf(current_sha)))
        => (exit_code = 0 /\ r_initial /\ outputs = << >>)

\* the run is past the resolver's choice of previous_sha and its checks
PastResolver == pc \in {"push_return", "pr_return", "glob", "diff", "exit"}

C5_PushUsesTwoDot ==
    PushRun => /\ diff = TwoDot
               /\ \A i \in 1..Len(outputs) : outputs[i].call.diff = TwoDot
\* a push-triggered run that made all nine get_diff invocations, after a
\* shallow fetch, on a tag, with until and a base-sha override
C5_Witness ==
    /\ PushRun /\ pc = "exit" /\ Len(outputs) = Len(DiffRequests)
    /\ args.is_tag /\ args.base_sha # EmptyStr /\ env.is_shallow_clone

\* C6: the pull-request resolver starts with ThreeDot and switches to TwoDot
\* iff the base ref is empty or the head repository is a fork; it returns
\* ThreeDot iff the base ref is set, the head is no fork and the merge base of
\* the returned pair can be computed locally; with an empty base ref every
\* invocation of get_diff is handed TwoDot.
C6_PROperatorChoice ==
    /\ (PRRun /\ pc = "pr_merge_base")
          => (r_diff = TwoDot <=> (env.pr_base_ref = "" \/ args.fork))
    /\ pc = "pr_return"
          => (ret[3] = ThreeDot
                <=> (env.pr_base_ref # "" /\ ~args.fork
                        /\ MergeBaseOk(local, ret[1], ret[2])))
    /\ env.pr_base_ref = ""
          => (diff = TwoDot /\ \A i \in 1..Len(outputs) : outputs[i].call.diff = TwoDot)
\* the resolver has returned ThreeDot for a pull request that is no fork
C6_Witness ==
    pc = "pr_return" /\ ret[3] = ThreeDot /\ ~args.fork /\ env.is_shallow_clone

\* C7: after the merge-base check on the final pair, an uncomputable merge
\* base means the operator is TwoDot, whatever step 1 chose, and the resolver
\* can still return; so with ThreeDot the ancestor of the validation diff and
\* of every get_diff invocation can be computed.
C7_ThreeDotHasMergeBase ==
    /\ (pc \in {"pr_verify", "pr_return"}
          /\ ~MergeBaseOk(local, CommitOf(previous_sha), CommitOf(current_sha)))
          => r_diff = TwoDot
    /\ (PRRun /\ pc \in {"pr_return", "glob", "diff"} /\ ret[3] = ThreeDot)
          => IsOk(AncestorCommit(local, ret[1], ret[2], ret[3]))
    /\ (PRRun /\ pc \in {"glob", "diff"} /\ diff = ThreeDot)
          => IsOk(AncestorCommit(local, previous_commit, current_commit, diff))
\* the resolver has returned TwoDot for a pull request that is no fork,
\* because the merge base of the pair it returned cannot be computed
C7_Witness ==
    /\ pc = "pr_return" /\ ~args.fork /\ ret[3] = TwoDot
    /\ ~MergeBaseOk(local, ret[1], ret[2])

\* the merge-base remediation loop applies: a shallow clone, no base-sha
\* override, prefer-last-remote-commit off, and the pull-request resolver is
\* past its choice of previous_sha
RemediationCase ==
    /\ PRRun /\ CurrentFound
    /\ pc \in {"pr_merge_base", "pr_verify", "pr_return", "glob", "diff", "exit"}
    /\ env.is_shallow_clone /\ args.base_sha = EmptyStr /\ ~args.slrc

\* C8: in the remediation case the resolver makes at most 10 fetch attempts,
\* and exactly 10 when the merge base of the base branch's tip and current is
\* still not computable at the end (so was never computable).
C8_RemediationLoopAttempts ==
    RemediationCase
        => /\ fetches <= 10
           /\ ~MergeBaseOk(local, BaseTip, CommitOf(current_sha)) => fetches = 10

\* C9: an ordinary push returns `before` as previous when forced is false,
\* since_last_remote_commit is true and `before` names a local commit other
\* than current; with forced true or since_last_remote_commit false it
\* returns current's first parent, whatever `before` is; the operator is
\* TwoDot.
C9_PushOrdinaryPrevious ==
    (pc = "push_return" /\ PushOrdinary)
        => /\ (~args.forced /\ args.slrc /\ IsOk(OidFromStr(args.before))
                 /\ IsOk(FindCommit(local, CommitOf(args.before)))
                 /\ args.before # current_sha)
                 => (ret[1] = CommitOf(args.before) /\ diff = TwoDot)
           /\ (args.forced \/ ~args.slrc)
                 => ret[1] = Parents(ret[2])[1]
\* `before` was taken: it is neither current nor current's first parent
C9_Witness ==
    /\ pc = "push_return" /\ PushOrdinary /\ ~args.forced /\ args.slrc
    /\ ret[1] = CommitOf(args.before)
    /\ ret[1] # ret[2] /\ ret[1] # Parents(ret[2])[1]

\* the changes inside the submodule between the gitlinks of two parent commits
SubmoduleChanges(prev, cur, patterns) ==
    SelectFiles(DiffTreeToTree(SubTree(Gitlink(prev)), SubTree(Gitlink(cur))),
                DiffTypes, patterns)
\* the elements of a sequence
Elems(seq) == {seq[i] : i \in 1..Len(seq)}

\* C10: when the checkout has a submodule whose gitlink differs between the
\* resolver's previous and current commits, the run makes its get_diff
\* invocations and the all-kinds result holds the changes between the two
\* gitlinked commits of the submodule's own repository.
C10_SubmoduleChangesIncluded ==
    (pc = "exit" /\ Returned /\ ~initial_commit /\ env.has_submodules
        /\ Gitlink(ret[1]) # 0 /\ Gitlink(ret[2]) # 0
        /\ Gitlink(ret[1]) # Gitlink(ret[2]))
        => /\ Len(outputs) = Len(DiffRequests)
           /\ Elems(SubmoduleChanges(ret[1], ret[2], glob_patterns))
                 \subseteq Elems(outputs[Len(DiffRequests)].files)

\* the deltas of the tree diff a recorded get_diff invocation was computed from
DeltasOf(o) ==
    DiffTreeToTree(Tree(Unwrap(AncestorCommit(local, o.call.previous_commit,
                                              o.call.current_commit, o.call.diff))),
                   Tree(o.call.current_commit))
\* the positions of the deltas whose kind is wanted and whose path passes the
\* filter get_diff was handed
KeptPositions(o) ==
    {k \in 1..Len(DeltasOf(o)) :
        /\ DeltaType(DeltasOf(o)[k].status) \in o.diff_types
        /\ (glob_patterns = << >> \/ MatchesAny(glob_patterns, DeltasOf(o)[k].path))}

\* C11: the result of every get_diff invocation holds exactly the deltas whose
\* kind is wanted and whose path passes the filter, each once, with its path and
\* kind, in the order of the tree diff (the j-th entry is the j-th kept delta);
\* the submodule matches, if any, come after them.
C11_DiffSelectionAndOrder ==
    \A i \in 1..Len(outputs) :
        LET o == outputs[i]
        IN /\ Len(o.files) >= Cardinality(KeptPositions(o))
           /\ \A k \in KeptPositions(o) :
                 LET j == Cardinality({x \in KeptPositions(o) : x <= k})
                 IN o.files[j] = [path |-> DeltasOf(o)[k].path,
                                  diff_type |-> DeltaType(DeltasOf(o)[k].status)]
           /\ env.has_submodules = FALSE
                 => Len(o.files) = Cardinality(KeptPositions(o))
\* the all-kinds invocation has listed three deltas in tree order and the first
\* invocation has left out those of another kind
C11_Witness ==
    /\ Len(outputs) = Len(DiffRequests)
    /\ Len(outputs[Len(DiffRequests)].files) = 3
    /\ Len(outputs[1].files) = 1
    /\ Len(DeltasOf(outputs[1])) = 3

\* C12: matching ignores letter case wherever a pattern is matched: a path that
\* some pattern of the filter matches up to letter case is kept, and an include
\* pattern whose text an exclude pattern matches up to letter case is not in the
\* filter.
C12_CaseInsensitiveEverywhere ==
    pc = "filter_applied"
        => /\ (\E i \in 1..Len(glob_patterns) :
                  MatchesWith(glob_patterns[i], outputs[1].path, FALSE))
                  => outputs[1].kept
           /\ \A i \in 1..Len(IncludePatterns(args)) :
                 (\E j \in 1..Len(IgnorePatterns(args)) :
                     MatchesWith(IgnorePatterns(args)[j], IncludePatterns(args)[i], FALSE))
                     => IncludePatterns(args)[i] \notin Elems(glob_patterns)

\* the include patterns as given: the inline ones, then those of the source files
GivenIncludes == InlinePatterns(args.files, Newline)
                     \o FromFilePatterns(args.files_from, Newline)
\* the positions of the given include patterns whose text no exclude pattern
\* matches
SurvivingPositions ==
    {k \in 1..Len(GivenIncludes) :
        ~\E j \in 1..Len(IgnorePatterns(args)) :
            MatchesWith(IgnorePatterns(args)[j], GivenIncludes[k], FALSE)}

\* C13: the list get_glob_patterns returns is exactly the given include
\* patterns (inline first, then from source files, order kept) whose text no
\* exclude pattern matches: the j-th returned pattern is the j-th surviving one,
\* and nothing else is returned or dropped.
C13_PatternLevelExclusion ==
    pc \in {"filter_built", "filter_applied"}
        => /\ Len(glob_patterns) = Cardinality(SurvivingPositions)
           /\ \A k \in SurvivingPositions :
                 glob_patterns[Cardinality({x \in SurvivingPositions : x <= k})]
                     = GivenIncludes[k]
\* inline and source-file patterns were given, an exclude pattern dropped one
\* of them and two different ones are returned
C13_Witness ==
    /\ pc = "filter_built"
    /\ args.files # << >> /\ args.files_from # << >> /\ args.files_ignore # << >>
    /\ Len(glob_patterns) >= 2 /\ Len(glob_patterns) < Len(GivenIncludes)
    /\ glob_patterns[1] # glob_patterns[Len(glob_patterns)]

\* the kind a raw status is named after; Conflicted is Unmerged
SameNamedKind(status) ==
    CASE status = "Typechange" -> "TypeChanged"
      [] status = "Conflicted" -> "Unmerged"
      [] OTHER -> status

\* C14: both mappings give every raw status exactly one kind: the detection
\* mapping sends Untracked, Ignored and Unreadable to Added and Unmodified to
\* Unknown, the per-request mapping sends those four to Unknown, and both send
\* each of the other seven statuses to its same-named kind.
C14_StatusMappingsTotal ==
    pc = "classified"
        => LET o == outputs[1]
           IN /\ IsOk(o.detected)
              /\ Unwrap(o.detected) \in DiffTypes /\ o.requested \in DiffTypes
              /\ o.status \in {"Untracked", "Ignored", "Unreadable"}
                    => (Unwrap(o.detected) = "Added" /\ o.requested = "Unknown")
              /\ o.status = "Unmodified"
                    => (Unwrap(o.detected) = "Unknown" /\ o.requested = "Unknown")
              /\ o.status \notin {"Untracked", "Ignored", "Unreadable", "Unmodified"}
                    => /\ Unwrap(o.detected) = SameNamedKind(o.status)
                       /\ o.requested = SameNamedKind(o.status)

\* a sha that does not name a commit of the local history
NotLocal(sha) ==
    ~(IsOk(OidFromStr(sha)) /\ IsOk(FindCommit(local, CommitOf(sha))))
\* the resolver is past its choice of current_sha and the lookup of it
PastCurrent == pc \notin {"start", "push_fetch", "push_current", "pr_fetch", "pr_current"}

\* C15: a current sha, or a final previous sha, that names no commit of the
\* local history ends the run with a non-zero exit status and without any
\* get_diff result; both commits of a returned pair are local.
C15_NotFoundIsFatal ==
    /\ (PastCurrent /\ NotLocal(current_sha))
          => (pc = "exit" /\ exit_code # 0 /\ outputs = << >> /\ ~Returned)
    /\ (PastResolver /\ NotLocal(previous_sha))
          => (pc = "exit" /\ exit_code # 0 /\ outputs = << >> /\ ~Returned)
    /\ Returned => (ret[1] \in local /\ ret[2] \in local)
\* a push whose `before` sha names a commit the shallow clone does not hold
\* has been rejected by the lookup of previous_sha
C15_Witness ==
    /\ pc = "exit" /\ exit_code = 1 /\ PushRun /\ CurrentFound
    /\ previous_sha = args.before /\ IsOk(OidFromStr(previous_sha))
    /\ CommitOf(previous_sha) \in Commits \ local

\* the push resolver is past its choice of previous_sha
PushPreviousChosen ==
    /\ PushRun /\ CurrentFound
    /\ pc \in {"push_verify", "push_return", "glob", "diff", "exit"}

\* C16: the push resolver takes previous from the base-sha override when one
\* is given, else from the since query when a since filter is given, else from
\* the second tag when the ref is a tag, else from the ordinary rule; and when
\* the chosen previous is current and current has a parent, previous becomes
\* that parent, whichever source it came from.
C16_PushPriorityOrder ==
    PushPreviousChosen
        => /\ (args.base_sha # EmptyStr /\ args.base_sha # current_sha)
                 => previous_sha = args.base_sha
           /\ (args.base_sha = EmptyStr /\ args.since)
                 => previous_sha \in SinceOutputs(local, env.head)
           /\ (args.base_sha = EmptyStr /\ ~args.since /\ args.is_tag)
                 => (previous_sha = EmptyStr \/ Ok(previous_sha) \in TagOutputs(local))
           /\ (args.base_sha = current_sha
                 /\ IsOk(Parent0(local, CommitOf(current_sha))))
                 => previous_sha = Hex(Unwrap(Parent0(local, CommitOf(current_sha))))

\* the pull-request resolver is past its choice of previous_sha
PRPreviousChosen ==
    /\ PRRun /\ CurrentFound
    /\ pc \in {"pr_merge_base", "pr_verify", "pr_return", "glob", "diff", "exit"}
\* a candidate that is empty or names current gives way to the PR base sha
OrBaseSha(candidate, pr_base_sha) ==
    IF candidate = EmptyStr \/ candidate = current_sha THEN pr_base_sha ELSE candidate

\* C17: the pull-request resolver takes previous from the base-sha override when
\* one is given; else, with since_last_remote_commit, from `before`, or from the
\* PR base sha when `before` is empty or names no local commit; else from the
\* tip of origin/<base ref>; and in the last two cases a candidate that is empty
\* or names current is replaced by the PR base sha.  Stated for every PR base
\* sha the step can be given, and for the rev-parse output of a base branch
\* whose tip is local.
C17_PRPriorityOrder ==
    PRPreviousChosen
        => /\ args.base_sha # EmptyStr => previous_sha = args.base_sha
           /\ (args.base_sha = EmptyStr /\ args.slrc)
                 => \A pb \in ShaInputs :
                       LET o == PRBeforePrevious(local, args.before, pb)
                       IN /\ o[1] = "ok"
                          /\ PRFallback(o[2], current_sha, pb)
                                = OrBaseSha(IF NotLocal(args.before) THEN pb
                                            ELSE args.before, pb)
           /\ (args.base_sha = EmptyStr /\ ~args.slrc /\ BaseTip \in local)
                 => \A pb \in ShaInputs :
                       \A o \in PRBranchPrevious(local, CommitOf(current_sha),
                                                 env.is_shallow_clone,
                                                 args.fetch_depth, Line(BaseTip)) :
                          /\ o[1] = "ok"
                          /\ PRFallback(o[2], current_sha, pb)
                                = OrBaseSha(Hex(BaseTip), pb)

\* the pull-request resolver has chosen current_sha
PRCurrentChosen ==
    /\ PRRun
    /\ \/ pc \in {"pr_previous", "pr_merge_base", "pr_verify", "pr_return", "glob", "diff"}
       \/ pc = "exit" /\ (current_sha # EmptyStr \/ exit_code = PanicCode)

\* C18: in a pull-request run, while the caller's until input is empty, current
\* is the override sha when one is given and HEAD's tip otherwise, whatever the
\* caller's since input is.
C18_PRCurrentWiring ==
    (PRCurrentChosen /\ ~args.until /\ current_sha # EmptyStr)
        => Trim(current_sha) = IF args.sha # EmptyStr THEN args.sha
                               ELSE Hex(env.head)

\* the pull-request resolver has looked both shas up and found them
PRPairFound ==
    PRRun /\ PastResolver /\ CurrentFound /\ ~NotLocal(previous_sha)
\* the old side of the validation diff under the final operator
ValidationAncestor ==
    AncestorCommit(local, CommitOf(previous_sha), CommitOf(current_sha), r_diff)
\* the number of deltas between two commits' trees
DeltaCount(old, new) == Len(DiffTreeToTree(Tree(old), Tree(new)))

\* C19: when the tree diff between the ancestor (previous under TwoDot, the
\* merge base under ThreeDot, by the final operator) and current has no delta,
\* the run ends with a non-zero exit status and the resolver does not return;
\* so a returned pair has at least one delta between its ancestor and current.
C19_PRValidationDiff ==
    /\ (PRPairFound /\ IsOk(ValidationAncestor)
          /\ DeltaCount(Unwrap(ValidationAncestor), CommitOf(current_sha)) = 0)
          => (pc = "exit" /\ exit_code # 0 /\ ~Returned /\ outputs = << >>)
    /\ pc = "pr_return"
          => DeltaCount(Unwrap(AncestorCommit(local, ret[1], ret[2], ret[3])), ret[2]) >= 1
\* two different commits with equal trees were rejected
C19_Witness ==
    /\ PRPairFound /\ pc = "exit" /\ exit_code = 1
    /\ previous_sha # current_sha
    /\ IsOk(ValidationAncestor)
    /\ Unwrap(ValidationAncestor) # CommitOf(current_sha)
    /\ DeltaCount(Unwrap(ValidationAncestor), CommitOf(current_sha)) = 0

\* the operator of the run once the resolver has returned
ReturnedOperator == IF PRRun THEN ret[3] ELSE TwoDot
\* the steps of each resolver
PushSteps == {"push_fetch", "push_current", "push_previous", "push_verify", "push_return"}
PRSteps == {"pr_fetch", "pr_current", "pr_previous", "pr_merge_base", "pr_verify",
            "pr_return"}
\* what holds of a run's order whatever the resolver's pair is bound to: one
\* resolver per run, the requests in order, no invocation before the resolver's
\* return, after a fatal exit or after the initial-commit short-circuit
RunOrder ==
    /\ PushRun => pc \notin PRSteps
    /\ PRRun => pc \notin PushSteps
    /\ Len(outputs) <= Len(DiffRequests)
    /\ \A i \in 1..Len(outputs) : outputs[i].diff_types = DiffRequests[i]
    /\ outputs # << >> => (Returned /\ pc \in {"diff", "exit"})
    /\ (pc = "exit" /\ exit_code # 0) => outputs = << >>
    /\ initial_commit => (outputs = << >> /\ pc = "exit" /\ exit_code = 0)

\* C20: one resolver runs per run, the push resolver iff the PR base ref is
\* empty; every get_diff invocation is handed the previous commit, the current
\* commit and the operator the resolver returned, for the eight single kinds
\* and then for all kinds; and no invocation happens before the resolver has
\* returned, after a fatal exit or after the initial-commit short-circuit.
C20_RunLevelOrdering ==
    /\ RunOrder
    /\ \A i \in 1..Len(outputs) :
          outputs[i].call = DiffCall(ret[1], ret[2], ReturnedOperator)

\* the single-kind invocations made so far
SingleKindResults == {i \in 1..Len(outputs) : i < Len(DiffRequests)}
\* the entries of a result whose kind is in a wanted set, in the result's order
OfKinds(files, kinds) ==
    Filter(files, [k \in 1..Len(files) |-> files[k].diff_type \in kinds], 1)

\* C21: the single-kind results of a run are pairwise disjoint and no path is
\* in two of them; the all-kinds result holds exactly the entries of their
\* union, and its entries of one kind are that kind's result, in the same order.
C21_ResultsPartition ==
    /\ \A i, j \in SingleKindResults :
          i # j => /\ Elems(outputs[i].files) \cap Elems(outputs[j].files) = {}
                   /\ {f.path : f \in Elems(outputs[i].files)}
                          \cap {f.path : f \in Elems(outputs[j].files)} = {}
    /\ Len(outputs) = Len(DiffRequests)
          => /\ Elems(outputs[Len(DiffRequests)].files)
                   = UNION {Elems(outputs[i].files) : i \in SingleKindResults}
             /\ \A i \in SingleKindResults :
                   OfKinds(outputs[Len(DiffRequests)].files, outputs[i].diff_types)
                       = outputs[i].files
\* a run whose all-kinds result has entries of three kinds
C21_Witness ==
    /\ Len(outputs) = Len(DiffRequests)
    /\ Cardinality({i \in SingleKindResults : outputs[i].files # << >>}) = 3
    /\ Len(outputs[Len(DiffRequests)].files) = 3

\* C22: every return of the push resolver has either initial_commit set and
\* previous = current, or initial_commit unset and previous # current, with
\* both commits local, and initial_commit set only in the ordinary branch;
\* every return of the pull-request resolver has previous # current, both
\* local, and the operator TwoDot or ThreeDot.
C22_ResolverOutput ==
    /\ pc = "push_return"
          => /\ ret[1] \in local /\ ret[2] \in local
             /\ (ret[3] /\ ret[1] = ret[2]) \/ (~ret[3] /\ ret[1] # ret[2])
             /\ ret[3] => PushOrdinary
    /\ pc = "pr_return"
          => /\ ret[1] \in local /\ ret[2] \in local
             /\ ret[1] # ret[2]
             /\ ret[3] \in {TwoDot, ThreeDot}

=============================================================================
